---- MODULE Spec2Model ----
(***************************************************************************)
(* Claw Club skill (skills/clawclub/skill.ts): the claim arbitration and   *)
(* budget governance of skill.run, one action per suspension point of the  *)
(* async handler.  The persisted key-value store (context.memory) is the   *)
(* shared state; everything else is local to one invocation.               *)
(*                                                                         *)
(* context.memory is modelled as a value store: get returns a copy and a   *)
(* change of the copy is persisted only by set, as the code's own          *)
(* get / push / set sequence for clawclub:claimed assumes.                 *)
(***************************************************************************)
EXTENDS Integers, Sequences, FiniteSets, TLC

\* ---------------------------------------------------------------- bounds
\* The clock stops advancing here.  Date.now() is counted in half weeks: two
\* readings are equal (the same day) or at least half a week apart.
MaxNow == 3
\* preferences.for_good.max_tasks_per_day of the configuration in use.
MaxTasksPerDay == 1

\* ------------------------------------------------------ program constants
\* oneWeek = 7 * 24 * 60 * 60 * 1000 ms, in half weeks.
oneWeek == 2
\* budget.max_per_battle || 2000
DefaultMaxPerBattle == 2000
\* budget.max_per_task || 3000
DefaultMaxPerTask == 3000
\* dailyStats.battles_joined >= 1
BattleCeiling == 1
\* ~4 chars per token
CharsPerToken == 4

\* The triggers of run: the periodic scheduler and the webhook.  Spec runs
\* the scheduled invocations alone, one after the other.
Procs == {"scheduled", "webhook"}
Scheduled == {"scheduled"}

\* ------------------------------------------------------------ the source
\* The two pools and the issues they can list.  A body is kept as the lengths
\* parseIssueConfig and the estimate read: text = the body with the config
\* block stripped and trimmed, block = the config block with its fences,
\* prompt = the block's explicit prompt value (0 when it has none).
repos == [arena |-> "clawclub/battles", for_good |-> "clawclub/clawback"]

IssueIds == {"b1", "b2", "t1", "t2"}

Issue(id) ==
    CASE id = "b1" -> [repo |-> repos.arena, number |-> 1, labels |-> <<"coding">>,
                       body |-> [text |-> 40, block |-> 0, prompt |-> 0,
                                 requires_repo |-> FALSE]]
      [] id = "b2" -> [repo |-> repos.arena, number |-> 2, labels |-> <<"art">>,
                       body |-> [text |-> 12, block |-> 60, prompt |-> 37,
                                 requires_repo |-> FALSE]]
      [] id = "t1" -> [repo |-> repos.for_good, number |-> 2, labels |-> <<"docs">>,
                       body |-> [text |-> 20, block |-> 31, prompt |-> 0,
                                 requires_repo |-> TRUE]]
      [] id = "t2" -> [repo |-> repos.for_good, number |-> 3,
                       labels |-> <<"translation", "docs">>,
                       body |-> [text |-> 0, block |-> 21, prompt |-> 0,
                                 requires_repo |-> FALSE]]

\* What each pool can list, in source order.
ArenaIssues == <<"b1", "b2">>
ForGoodIssues == <<"t1", "t2">>

\* issues.push(...arenaIssues.map(i => ({...i, repo, type: 'battle'})))
TypeOf(id) == IF Issue(id).repo = repos.arena THEN "battle" ELSE "task"

\* ------------------------------------------------------- configuration
\* getConfig: the budget an invocation runs under.  The configuration is read
\* afresh by every invocation, so it may differ from one to the next.
Budgets ==
    { [daily_tokens |-> 1000, max_per_battle |-> 450, max_per_task |-> 455,
       reserve_percent |-> 10],
      [daily_tokens |-> 2000, max_per_battle |-> 450, max_per_task |-> 455,
       reserve_percent |-> 10] }

\* getConfig: the preferences.
Preferences ==
    [arena |-> [enabled |-> TRUE, categories |-> {"coding"}],
     for_good |-> [enabled |-> TRUE, categories |-> {"docs"},
                   max_tasks_per_day |-> MaxTasksPerDay]]

\* ------------------------------------------------------- pure functions
SeqToSet(s) == {s[k] : k \in 1..Len(s)}

\* Math.ceil(n / CharsPerToken)
Ceil4(n) == (n + CharsPerToken - 1) \div CharsPerToken

\* issue.body.length
BodyLength(body) == body.text + body.block

\* (no stripping: the whole body is the prompt when the block names none)
parseIssueConfigKeepsBlocks(body) ==
    [prompt |-> IF body.prompt # 0 THEN body.prompt ELSE BodyLength(body),
     requires_repo |-> body.requires_repo]

\* parseIssueConfig: the explicit prompt of the block, else the body with the
\* blocks stripped and trimmed; requires_repo as the block gives it.
parseIssueConfig(body) ==
    [prompt |-> IF body.prompt # 0 THEN body.prompt ELSE body.text,
     requires_repo |-> body.requires_repo]

\* estimatedInputTokens + maxOutputTokens
EstimatedTokens(id, budget) ==
    LET issueConfig == parseIssueConfig(Issue(id).body)
        promptLength == IF issueConfig.prompt # 0 THEN issueConfig.prompt
                        ELSE BodyLength(Issue(id).body)
        maxOutputTokens ==
            IF TypeOf(id) = "battle"
            THEN (IF budget.max_per_battle # 0 THEN budget.max_per_battle
                  ELSE DefaultMaxPerBattle)
            ELSE (IF budget.max_per_task # 0 THEN budget.max_per_task
                  ELSE DefaultMaxPerTask)
    IN  Ceil4(promptLength) + maxOutputTokens

\* (available without the reserve taken off)
AvailableWithoutReserve100(budget, dailyStats) ==
    100 * (budget.daily_tokens - dailyStats.tokens_used)

\* (available taken from the allowance alone, the spend of the day ignored)
Available100IgnoresUsed(budget, dailyStats) ==
    100 * budget.daily_tokens - budget.daily_tokens * budget.reserve_percent

\* reserve and available, both times 100 so that the division by 100 of
\* reserve_percent stays exact:
\*   available = daily_tokens - tokens_used - daily_tokens * (reserve_percent / 100)
Available100(budget, dailyStats) ==
    100 * (budget.daily_tokens - dailyStats.tokens_used)
        - budget.daily_tokens * budget.reserve_percent

\* The budget gate: estimatedTokens > available  (skip)
OverBudget(estimatedTokens, available100) == 100 * estimatedTokens > available100

\* (the rate limit gate with > for >=)
RateLimitedOffByOne(type, dailyStats, prefs) ==
    \/ type = "battle" /\ dailyStats.battles_joined > BattleCeiling
    \/ type = "task" /\ dailyStats.tasks_completed > prefs.for_good.max_tasks_per_day

\* The rate limit gate (skip when TRUE).
RateLimited(type, dailyStats, prefs) ==
    \/ type = "battle" /\ dailyStats.battles_joined >= BattleCeiling
    \/ type = "task" /\ dailyStats.tasks_completed >= prefs.for_good.max_tasks_per_day

\* Fallback match: some label of the issue is in the allow-list of its kind.
MatchedCategory(id, prefs) ==
    \E l \in SeqToSet(Issue(id).labels) :
        \/ TypeOf(id) = "battle" /\ l \in prefs.arena.categories
        \/ TypeOf(id) = "task" /\ l \in prefs.for_good.categories

\* (the filter left out)
UnclaimedUnfiltered(issues, claimed) == issues

\* issues.filter(i => !claimed.includes(i.number))
Unclaimed(issues, claimed) ==
    SelectSeq(issues, LAMBDA id : Issue(id).number \notin SeqToSet(claimed))

\* (the push left out: the list is written back as it was read)
CommitNothing(claimedList, id) == claimedList

\* (a commit that leaves a number already in the list alone)
CommitIfAbsent(claimedList, id) ==
    IF Issue(id).number \in SeqToSet(claimedList) THEN claimedList
    ELSE Append(claimedList, Issue(id).number)

\* claimedList.push(issue.number)
Commit(claimedList, id) == Append(claimedList, Issue(id).number)

\* The stored daily stats; this value (date 0, before the clock's first day)
\* stands for a store that has none.
NoDaily == [tokens_used |-> 0, battles_joined |-> 0, tasks_completed |-> 0, date |-> 0]

LoadDaily(stored, today) ==
    IF stored = NoDaily THEN [NoDaily EXCEPT !.date = today] ELSE stored

\* (a reset that forgets the two counters)
RolloverKeepsCounters(dailyStats, today) ==
    IF dailyStats.date # today
    THEN [dailyStats EXCEPT !.tokens_used = 0, !.date = today]
    ELSE dailyStats

\* Reset if new day.
Rollover(dailyStats, today) ==
    IF dailyStats.date # today
    THEN [tokens_used |-> 0, battles_joined |-> 0, tasks_completed |-> 0, date |-> today]
    ELSE dailyStats

\* ------------------------------------------------------------------ state
VARIABLES
    mem,    \* context.memory: the persisted store
    now,    \* Date.now(); new Date().toDateString() is the day it falls on
    prefs,  \* config.preferences
    inv,    \* per trigger: the local state of its invocation of run
    hist    \* per trigger: what its current (or last) invocation did

vars == <<mem, now, prefs, inv, hist>>

NoBudget == [daily_tokens |-> 0, max_per_battle |-> 0, max_per_task |-> 0,
             reserve_percent |-> 0]

\* No invocation in flight.
IdleInv ==
    [pc |-> "idle", budget |-> NoBudget, dailyStats |-> NoDaily, available100 |-> 0,
     issues |-> <<>>, unclaimed |-> <<>>, idx |-> 0, estimatedTokens |-> 0,
     ownerKnowledge |-> FALSE, isMatch |-> FALSE, claimedThisRun |-> FALSE]

\* The record of an invocation that has done nothing yet.  startClaimed is the
\* claimed list as the invocation last read it for its filter (the stored one
\* until then); committed is every item the trigger has committed so far.
NewHist(stored, claimed, prev, committed) ==
    [outcome |-> "running", startDaily |-> stored, startClaimed |-> claimed,
     skipped |-> {}, passed |-> {}, posted |-> <<>>, dropped |-> {}, failed |-> {},
     rejected |-> {}, recorded |-> <<>>, spent |-> 0, left |-> 0,
     prevSkipped |-> prev, committed |-> committed]

Init ==
    /\ mem = [claimed |-> <<>>, daily |-> NoDaily, owner_knowledge |-> FALSE,
              owner_knowledge_updated |-> 0]
    /\ now = 1
    /\ prefs = Preferences
    /\ inv = [p \in Procs |-> IdleInv]
    /\ hist = [p \in Procs |-> [NewHist(NoDaily, <<>>, {}, {}) EXCEPT !.outcome = "none"]]

\* The candidate the loop is at.
Current(s) == s.unclaimed[s.idx]

\* The persisted claimed numbers.
ClaimedSet == SeqToSet(mem.claimed)

\* ---------------------------------------------------------------- helpers
\* `continue`: on to the next candidate.
Continue(s) == [s EXCEPT !.idx = @ + 1, !.pc = "loop"]

\* The rate limit gate, after a match: skip, or go on to the claim.
AfterMatch(p, s) ==
    IF RateLimited(TypeOf(Current(s)), s.dailyStats, prefs)
    THEN /\ inv' = [inv EXCEPT ![p] = Continue([s EXCEPT !.isMatch = TRUE])]
         /\ hist' = [hist EXCEPT ![p].skipped = @ \cup {Current(s)}]
    ELSE /\ inv' = [inv EXCEPT ![p] = [s EXCEPT !.isMatch = TRUE, !.pc = "claim"]]
         /\ hist' = [hist EXCEPT ![p].passed = @ \cup {Current(s)}]

\* (the allow-list consulted even when the owner profile is there)
AfterKnowledgeNeedsCategory(p, s, knowledge) ==
    IF ~MatchedCategory(Current(s), prefs)
    THEN /\ inv' = [inv EXCEPT ![p] = Continue([s EXCEPT !.ownerKnowledge = knowledge])]
         /\ hist' = [hist EXCEPT ![p].skipped = @ \cup {Current(s)}]
    ELSE IF knowledge
    THEN /\ inv' = [inv EXCEPT ![p] = [s EXCEPT !.ownerKnowledge = TRUE,
                                                !.pc = "classify"]]
         /\ UNCHANGED hist
    ELSE AfterMatch(p, [s EXCEPT !.ownerKnowledge = FALSE])

\* The match gate once getOwnerKnowledge has returned `knowledge`.
AfterKnowledge(p, s, knowledge) ==
    IF knowledge
    THEN /\ inv' = [inv EXCEPT ![p] = [s EXCEPT !.ownerKnowledge = TRUE,
                                                !.pc = "classify"]]
         /\ UNCHANGED hist
    ELSE IF ~MatchedCategory(Current(s), prefs)
    THEN /\ inv' = [inv EXCEPT ![p] = Continue([s EXCEPT !.ownerKnowledge = FALSE])]
         /\ hist' = [hist EXCEPT ![p].skipped = @ \cup {Current(s)}]
    ELSE AfterMatch(p, [s EXCEPT !.ownerKnowledge = FALSE])

\* An error leaves run: the invocation is over.
Throw(p) ==
    /\ inv' = [inv EXCEPT ![p] = IdleInv]
    /\ hist' = [hist EXCEPT ![p].outcome = "threw",
                            ![p].failed = @ \cup (IF inv[p].idx >= 1
                                                     /\ inv[p].idx <= Len(inv[p].unclaimed)
                                                  THEN {Current(inv[p])} ELSE {})]

\* cachedKnowledge && lastUpdated && (now - lastUpdated) < oneWeek
KnowledgeFresh ==
    /\ mem.owner_knowledge
    /\ mem.owner_knowledge_updated # 0
    /\ now - mem.owner_knowledge_updated < oneWeek

\* --------------------------------------------------------------- actions
\* run, up to its first fetch: the configuration, the daily stats with their
\* rollover, reserve and available.  (The weekly version check before them
\* reads and writes its own key of the store alone, and swallows its errors.)
StartRun(s, budget) ==
    LET dailyStats == Rollover(LoadDaily(mem.daily, now), now)
    IN  [s EXCEPT !.pc = IF prefs.arena.enabled THEN "fetchArena"
                         ELSE IF prefs.for_good.enabled THEN "fetchTasks"
                         ELSE "loop",
                  !.budget = budget,
                  !.dailyStats = dailyStats,
                  !.available100 = Available100(budget, dailyStats),
                  !.issues = <<>>,
                  !.unclaimed = <<>>,
                  !.idx = 1,
                  !.claimedThisRun = FALSE]

Start(p, budget) ==
    /\ inv[p].pc = "idle"
    /\ inv' = [inv EXCEPT ![p] = StartRun(inv[p], budget)]
    /\ hist' = [hist EXCEPT ![p] =
                  NewHist(mem.daily, mem.claimed,
                          IF hist[p].outcome = "aborted" THEN hist[p].prevSkipped
                          ELSE hist[p].skipped,
                          hist[p].committed)]
    /\ UNCHANGED <<mem, now, prefs>>

\* (the error logged without the return: the run goes on)
StartWithoutCredentialsNoReturn(p) ==
    /\ inv[p].pc = "idle"
    /\ inv' = [inv EXCEPT ![p] = StartRun(inv[p], CHOOSE budget \in Budgets : TRUE)]
    /\ hist' = [hist EXCEPT ![p] =
                  [NewHist(mem.daily, mem.claimed, hist[p].prevSkipped, hist[p].committed)
                      EXCEPT !.outcome = "aborted"]]
    /\ UNCHANGED <<mem, now, prefs>>

\* if (!agentId || !githubToken) return;
StartWithoutCredentials(p) ==
    /\ inv[p].pc = "idle"
    /\ hist' = [hist EXCEPT ![p] =
                  [NewHist(mem.daily, mem.claimed,
                           IF hist[p].outcome = "aborted" THEN hist[p].prevSkipped
                           ELSE hist[p].skipped,
                           hist[p].committed)
                      EXCEPT !.outcome = "aborted"]]
    /\ UNCHANGED <<mem, now, prefs, inv>>

\* The issues a pool lists now: any of those it can list, in its order.
Listing(pool, open) == SelectSeq(pool, LAMBDA id : id \in open)

\* const claimed = memory.get('clawclub:claimed') || []; unclaimed = issues.filter(...)
Filter(s, issues) ==
    [s EXCEPT !.issues = issues, !.unclaimed = Unclaimed(issues, mem.claimed),
              !.idx = 1, !.pc = "loop"]

FetchArena(p, open) ==
    /\ inv[p].pc = "fetchArena"
    /\ LET issues == inv[p].issues \o Listing(ArenaIssues, open)
       IN  IF prefs.for_good.enabled
           THEN /\ inv' = [inv EXCEPT ![p] = [@ EXCEPT !.issues = issues,
                                                       !.pc = "fetchTasks"]]
                /\ UNCHANGED hist
           ELSE /\ inv' = [inv EXCEPT ![p] = Filter(@, issues)]
                /\ hist' = [hist EXCEPT ![p].startClaimed = mem.claimed]
    /\ UNCHANGED <<mem, now, prefs>>

FetchTasks(p, open) ==
    /\ inv[p].pc = "fetchTasks"
    /\ inv' = [inv EXCEPT ![p] = Filter(@, inv[p].issues \o Listing(ForGoodIssues, open))]
    /\ hist' = [hist EXCEPT ![p].startClaimed = mem.claimed]
    /\ UNCHANGED <<mem, now, prefs>>

\* if (!resp.ok) throw new Error(...), or fetch itself rejects
FetchFails(p) ==
    /\ inv[p].pc \in {"fetchArena", "fetchTasks"}
    /\ Throw(p)
    /\ UNCHANGED <<mem, now, prefs>>

\* The loop is over: if (!claimedThisRun) log; return.
Return(p) ==
    /\ inv[p].pc = "loop"
    /\ inv[p].idx > Len(inv[p].unclaimed)
    /\ inv' = [inv EXCEPT ![p] = IdleInv]
    /\ hist' = [hist EXCEPT ![p].outcome = "returned", ![p].prevSkipped = {}]
    /\ UNCHANGED <<mem, now, prefs>>

\* (the budget gate logs but does not `continue`)
EstimateNoSkip(p) ==
    /\ inv[p].pc = "loop"
    /\ inv[p].idx <= Len(inv[p].unclaimed)
    /\ LET s == inv[p]
       IN  inv' = [inv EXCEPT ![p] =
                     [s EXCEPT !.estimatedTokens = EstimatedTokens(Current(s), s.budget),
                               !.isMatch = FALSE, !.pc = "knowledge"]]
    /\ hist' = [hist EXCEPT ![p].prevSkipped = {}]
    /\ UNCHANGED <<mem, now, prefs>>

\* The estimate and the budget gate of the next candidate.
Estimate(p) ==
    /\ inv[p].pc = "loop"
    /\ inv[p].idx <= Len(inv[p].unclaimed)
    /\ LET id == Current(inv[p])
           s == [inv[p] EXCEPT !.estimatedTokens = EstimatedTokens(id, inv[p].budget),
                               !.isMatch = FALSE]
       IN  IF OverBudget(s.estimatedTokens, s.available100)
           THEN /\ inv' = [inv EXCEPT ![p] = Continue(s)]
                /\ hist' = [hist EXCEPT ![p].skipped = @ \cup {id},
                                        ![p].prevSkipped = {}]
           ELSE /\ inv' = [inv EXCEPT ![p] = [s EXCEPT !.pc = "knowledge"]]
                /\ hist' = [hist EXCEPT ![p].prevSkipped = {}]
    /\ UNCHANGED <<mem, now, prefs>>

\* getOwnerKnowledge: the cached profile is fresh.
KnowledgeCached(p) ==
    /\ inv[p].pc = "knowledge"
    /\ KnowledgeFresh
    /\ AfterKnowledge(p, inv[p], TRUE)
    /\ UNCHANGED <<mem, now, prefs>>

\* getOwnerKnowledge: the refresh answers, with a profile or with an empty text.
KnowledgeRefreshed(p, profile) ==
    /\ inv[p].pc = "knowledge"
    /\ ~KnowledgeFresh
    /\ mem' = [mem EXCEPT !.owner_knowledge = profile, !.owner_knowledge_updated = now]
    /\ AfterKnowledge(p, inv[p], profile)
    /\ UNCHANGED <<now, prefs>>

\* getOwnerKnowledge: the refresh throws; return cachedKnowledge || null.
KnowledgeRefreshFails(p) ==
    /\ inv[p].pc = "knowledge"
    /\ ~KnowledgeFresh
    /\ AfterKnowledge(p, inv[p], mem.owner_knowledge)
    /\ UNCHANGED <<mem, now, prefs>>

\* doesPromptMatchOwner answers.
Classify(p, yes) ==
    /\ inv[p].pc = "classify"
    /\ IF yes
       THEN AfterMatch(p, inv[p])
       ELSE /\ inv' = [inv EXCEPT ![p] = Continue(@)]
            /\ hist' = [hist EXCEPT ![p].skipped = @ \cup {Current(inv[p])}]
    /\ UNCHANGED <<mem, now, prefs>>

\* doesPromptMatchOwner: the completion throws.
ClassifyFails(p) ==
    /\ inv[p].pc = "classify"
    /\ Throw(p)
    /\ UNCHANGED <<mem, now, prefs>>

\* Where execution starts once the claim is committed.
ExecutionOf(id) ==
    IF TypeOf(id) = "task" /\ parseIssueConfig(Issue(id).body).requires_repo
    THEN "createRepo"
    ELSE "complete"

\* (the commit put off: execution starts on the posted claim alone)
ClaimCommitsLate(p, claimOk) ==
    /\ inv[p].pc = "claim"
    /\ LET s == inv[p]
           id == Current(s)
       IN  IF ~claimOk
           THEN /\ inv' = [inv EXCEPT ![p] = Continue(s)]
                /\ hist' = [hist EXCEPT ![p].skipped = @ \cup {id}]
           ELSE /\ inv' = [inv EXCEPT ![p] = [s EXCEPT !.pc = ExecutionOf(id)]]
                /\ hist' = [hist EXCEPT ![p].posted = Append(@, id),
                                        ![p].committed = @ \cup {id}]
    /\ UNCHANGED <<mem, now, prefs>>

\* claimIssue returns resp.ok; on success the number is committed at once:
\* claimedList = memory.get(...) || []; claimedList.push(...); memory.set(...)
Claim(p, claimOk) ==
    /\ inv[p].pc = "claim"
    /\ LET s == inv[p]
           id == Current(s)
       IN  IF ~claimOk
           THEN /\ inv' = [inv EXCEPT ![p] = Continue(s)]
                /\ hist' = [hist EXCEPT ![p].skipped = @ \cup {id}]
                /\ UNCHANGED mem
           ELSE /\ mem' = [mem EXCEPT !.claimed = Commit(@, id)]
                /\ inv' = [inv EXCEPT ![p] = [s EXCEPT !.pc = ExecutionOf(id)]]
                /\ hist' = [hist EXCEPT ![p].posted = Append(@, id),
                                        ![p].committed = @ \cup {id}]
    /\ UNCHANGED <<now, prefs>>

\* claimIssue: fetch rejects.
ClaimFails(p) ==
    /\ inv[p].pc = "claim"
    /\ Throw(p)
    /\ UNCHANGED <<mem, now, prefs>>

\* dailyStats.battles_joined++ / dailyStats.tasks_completed++ (the local copy)
Joined(dailyStats, type) ==
    IF type = "battle"
    THEN [dailyStats EXCEPT !.battles_joined = @ + 1]
    ELSE [dailyStats EXCEPT !.tasks_completed = @ + 1]

\* context.llm.complete returns the result of a battle or of a text task.
Complete(p) ==
    /\ inv[p].pc = "complete"
    /\ LET s == inv[p]
           id == Current(s)
       IN  inv' = [inv EXCEPT ![p] =
                     [s EXCEPT !.dailyStats = Joined(@, TypeOf(id)), !.pc = "submit"]]
    /\ UNCHANGED <<mem, now, prefs, hist>>

\* context.llm.complete throws.
CompleteFails(p) ==
    /\ inv[p].pc = "complete"
    /\ Throw(p)
    /\ UNCHANGED <<mem, now, prefs>>

\* createAgentRepo returns the url of the workspace, or null: `continue`.
CreateRepo(p, repoUrl) ==
    /\ inv[p].pc = "createRepo"
    /\ LET s == inv[p]
           id == Current(s)
       IN  IF repoUrl
           THEN /\ inv' = [inv EXCEPT ![p] =
                             [s EXCEPT !.dailyStats = Joined(@, TypeOf(id)),
                                       !.pc = "submit"]]
                /\ UNCHANGED hist
           ELSE /\ inv' = [inv EXCEPT ![p] = Continue(s)]
                /\ hist' = [hist EXCEPT ![p].dropped = @ \cup {id}]
    /\ UNCHANGED <<mem, now, prefs>>

\* createAgentRepo: fetch rejects.
CreateRepoFails(p) ==
    /\ inv[p].pc = "createRepo"
    /\ Throw(p)
    /\ UNCHANGED <<mem, now, prefs>>

\* (the estimate assigned instead of added)
RecordSpendOverwrite(dailyStats, estimatedTokens) ==
    [dailyStats EXCEPT !.tokens_used = estimatedTokens]

\* dailyStats.tokens_used += estimatedTokens
RecordSpend(dailyStats, estimatedTokens) ==
    [dailyStats EXCEPT !.tokens_used = @ + estimatedTokens]

\* (the break left out: the loop goes on after a record)
AfterRecordNoBreak(s) == Continue(s)

\* (the break taken for a continue only when candidates are left)
AfterRecordContinue(s) == IF s.idx < Len(s.unclaimed) THEN Continue(s) ELSE IdleInv

\* claimedThisRun = true; break; and run returns.
AfterRecord(s) == IdleInv

\* submitResult returns resp.ok, which run does not read; then
\* dailyStats.tokens_used += estimatedTokens; memory.set('clawclub:daily', dailyStats)
Submit(p, submitOk) ==
    /\ inv[p].pc = "submit"
    /\ LET s == inv[p]
           id == Current(s)
           dailyStats == RecordSpend(s.dailyStats, s.estimatedTokens)
       IN  /\ mem' = [mem EXCEPT !.daily = dailyStats]
           /\ inv' = [inv EXCEPT ![p] =
                        AfterRecord([s EXCEPT !.dailyStats = dailyStats,
                                              !.claimedThisRun = TRUE])]
           /\ hist' = [hist EXCEPT
                         ![p].rejected = IF submitOk THEN @ ELSE @ \cup {id},
                         ![p].recorded = Append(@, id),
                         ![p].spent = s.estimatedTokens,
                         ![p].left = Len(s.unclaimed) - s.idx,
                         ![p].outcome = IF inv'[p].pc = "idle" THEN "returned" ELSE @]
    /\ UNCHANGED <<now, prefs>>

\* submitResult: fetch rejects.
SubmitFails(p) ==
    /\ inv[p].pc = "submit"
    /\ Throw(p)
    /\ UNCHANGED <<mem, now, prefs>>

\* Time passes.
Tick ==
    /\ now < MaxNow
    /\ now' = now + 1
    /\ UNCHANGED <<mem, prefs, inv, hist>>

\* One step of the invocation of trigger p that is past its fetches: what
\* follows the return of one of its awaits, up to the next.
StepInLoop(p) ==
    \/ Return(p)
    \/ Estimate(p)
    \/ KnowledgeCached(p)
    \/ \E profile \in BOOLEAN : KnowledgeRefreshed(p, profile)
    \/ KnowledgeRefreshFails(p)
    \/ \E yes \in BOOLEAN : Classify(p, yes)
    \/ ClassifyFails(p)
    \/ \E claimOk \in BOOLEAN : Claim(p, claimOk)
    \/ ClaimFails(p)
    \/ Complete(p)
    \/ CompleteFails(p)
    \/ \E repoUrl \in BOOLEAN : CreateRepo(p, repoUrl)
    \/ CreateRepoFails(p)
    \/ \E submitOk \in BOOLEAN : Submit(p, submitOk)
    \/ SubmitFails(p)

\* One step of trigger p: an invocation starts, or the one in flight goes on.
Step(p) ==
    \/ \E budget \in Budgets : Start(p, budget)
    \/ StartWithoutCredentials(p)
    \/ \E open \in SUBSET SeqToSet(ArenaIssues) : FetchArena(p, open)
    \/ \E open \in SUBSET SeqToSet(ForGoodIssues) : FetchTasks(p, open)
    \/ FetchFails(p)
    \/ StepInLoop(p)

Next == Tick \/ \E p \in Scheduled : Step(p)

Spec == Init /\ [][Next]_vars

\* Overlapping invocations: the webhook (event issues/opened: await
\* this.run(context)) starts a run while the scheduled one is suspended at an
\* await, or the other way round; both work on the same context.memory, and
\* their steps interleave at the awaits.  Each trigger fires once, and the
\* pools list all their issues while the two runs last.
StartOnce(p, budget) ==
    /\ hist[p].outcome = "none"
    /\ Start(p, budget)

NextOverlap ==
    \E p \in Procs :
        \/ \E budget \in Budgets : StartOnce(p, budget)
        \/ FetchArena(p, SeqToSet(ArenaIssues))
        \/ FetchTasks(p, SeqToSet(ForGoodIssues))
        \/ FetchFails(p)
        \/ StepInLoop(p)

SpecOverlap == Init /\ [][NextOverlap]_vars

\* One configuration for every invocation: getConfig returns the same budget
\* each time, and the scheduled invocations follow one another.
FixedBudget ==
    [daily_tokens |-> 1000, max_per_battle |-> 450, max_per_task |-> 455,
     reserve_percent |-> 10]

StartFixed(p) == Start(p, FixedBudget)

NextFixedBudget ==
    \/ Tick
    \/ \E p \in Scheduled :
          \/ StartFixed(p)
          \/ StartWithoutCredentials(p)
          \/ \E open \in SUBSET SeqToSet(ArenaIssues) : FetchArena(p, open)
          \/ \E open \in SUBSET SeqToSet(ForGoodIssues) : FetchTasks(p, open)
          \/ FetchFails(p)
          \/ StepInLoop(p)

SpecFixedBudget == Init /\ [][NextFixedBudget]_vars

\* ------------------------------------------------------------ the claims
Running(p) == inv[p].pc # "idle"

\* The candidate is past the budget gate.
PastBudget(p) ==
    inv[p].pc \in {"knowledge", "classify", "claim", "complete", "createRepo", "submit"}

Numbers(ids) == {Issue(id).number : id \in ids}

\* C1: in one invocation at most one item is recorded, and once an item is
\* recorded the invocation is over: it has returned, no candidate is evaluated
\* after it, and the persisted stats carry the spend of that item.
C1_AtMostOneRecord ==
    \A p \in Scheduled :
        /\ Len(hist[p].recorded) <= 1
        /\ Len(hist[p].recorded) = 1 =>
              /\ ~Running(p)
              /\ hist[p].outcome = "returned"
              /\ mem.daily.tokens_used > 0

\* C1 witness: an item is recorded while candidates after it were never evaluated.
C1_Witness ==
    \E p \in Scheduled : Len(hist[p].recorded) = 1 /\ hist[p].left >= 1

\* C2 (as claimed): in one invocation at most one claim marker is posted with
\* success and at most one identifier is added to the claimed list.
C2_AtMostOneClaim ==
    \A p \in Scheduled :
        /\ Len(hist[p].posted) <= 1
        /\ hist[p].outcome # "aborted" =>
              Len(mem.claimed) - Len(hist[p].startClaimed) <= 1

\* C3 (as claimed): whenever at least two candidates of an invocation passed
\* all four gates, exactly one item is recorded by the time it returns.
C3_ExactlyOne ==
    \A p \in Scheduled :
        (hist[p].outcome = "returned" /\ Cardinality(hist[p].passed) >= 2)
            => Len(hist[p].recorded) = 1

\* The candidates whose claim succeeded and whose execution and submission
\* went through: not dropped for a missing workspace, no error thrown, the
\* submission accepted.
Completed(p) ==
    SeqToSet(hist[p].posted) \ (hist[p].dropped \cup hist[p].failed \cup hist[p].rejected)

\* C3 (amended): when an invocation is over at most one item is recorded;
\* exactly one, the completed one, if the claim, execution and submission of
\* some candidate that passed the gates went through; none if no claim succeeded.
C3_AtMostOne ==
    \A p \in Scheduled :
        hist[p].outcome \in {"returned", "threw"} =>
            /\ Len(hist[p].recorded) <= 1
            /\ Completed(p) # {} => SeqToSet(hist[p].recorded) = Completed(p)
            /\ hist[p].posted = <<>> => hist[p].recorded = <<>>
            /\ SeqToSet(hist[p].posted) \subseteq hist[p].passed

\* C3 witness: two candidates passed all gates, the claim of the first failed
\* and the second was recorded.
C3_Witness ==
    \E p \in Scheduled :
        /\ hist[p].outcome = "returned"
        /\ Cardinality(hist[p].passed) >= 2
        /\ Len(hist[p].recorded) = 1
        /\ Completed(p) # {}
        /\ hist[p].passed \cap hist[p].skipped # {}

\* C4, the state part: every identifier an invocation committed is in the
\* persisted claimed list, the list an invocation started from is still part
\* of it, and no candidate of the invocation carries an identifier that was
\* in the list when the invocation started.
C4_Closure ==
    \A p \in Scheduled :
        /\ Numbers(SeqToSet(hist[p].posted)) \subseteq ClaimedSet
        /\ SeqToSet(hist[p].startClaimed) \subseteq ClaimedSet
        /\ Running(p) =>
              Numbers(SeqToSet(inv[p].unclaimed)) \cap SeqToSet(hist[p].startClaimed) = {}

\* C4, the step part: nothing is ever removed from the claimed list.
C4_Grows == ClaimedSet \subseteq ClaimedSet'

\* C4: dedup closure: the claimed list only grows, it holds every committed
\* identifier from its commit on, and an invocation that starts afterwards
\* never has that identifier among its candidates.
C4_DedupClosure == [](C4_Closure) /\ [][C4_Grows]_vars

\* C4 witness: an invocation is at its candidates while the source lists an
\* issue that an earlier invocation committed, and that issue is filtered out.
C4_Witness ==
    \E p \in Scheduled :
        /\ inv[p].pc = "loop"
        /\ inv[p].unclaimed # <<>>
        /\ \E id \in SeqToSet(inv[p].issues) :
              /\ Issue(id).number \in SeqToSet(hist[p].startClaimed)
              /\ id \notin SeqToSet(inv[p].unclaimed)

\* available(), times 100, as the ledger defines it:
\* dailyTokens - tokensUsed - dailyTokens * reservePercent / 100.
LedgerAvailable100(budget, tokensUsed) ==
    100 * budget.daily_tokens - 100 * tokensUsed
        - budget.daily_tokens * budget.reserve_percent

\* C5: a candidate that is past the budget gate (being matched, rate limited,
\* claimed, executed or submitted) has an estimate of at most available();
\* so when available() is negative no candidate is past the gate.
C5_WithinBudget ==
    \A p \in Scheduled :
        PastBudget(p) =>
            /\ 100 * EstimatedTokens(Current(inv[p]), inv[p].budget)
                  <= LedgerAvailable100(inv[p].budget,
                        inv[p].dailyStats.tokens_used)
            /\ LedgerAvailable100(inv[p].budget, inv[p].dailyStats.tokens_used) >= 0

\* C5 witness: dailyTokens = 1000, reservePercent = 10, tokensUsed = 920, so
\* available() = -20, and the candidates so far were all skipped.
C5_Witness ==
    \E p \in Scheduled :
        /\ inv[p].pc = "loop"
        /\ inv[p].budget.daily_tokens = 1000
        /\ inv[p].budget.reserve_percent = 10
        /\ inv[p].dailyStats.tokens_used = 920
        /\ inv[p].available100 = -2000
        /\ Len(inv[p].unclaimed) >= 1
        /\ inv[p].idx = Len(inv[p].unclaimed) + 1
        /\ hist[p].skipped = SeqToSet(inv[p].unclaimed)
        /\ hist[p].passed = {}

\* The counter the rate limit gate reads for a kind, and its ceiling.
Counter(dailyStats, type) ==
    IF type = "battle" THEN dailyStats.battles_joined ELSE dailyStats.tasks_completed

Ceiling(type) ==
    IF type = "battle" THEN 1 ELSE prefs.for_good.max_tasks_per_day

\* C6: a candidate is claimed and executed only while the counter of its kind
\* is below its ceiling (1 battle, maxTasksPerDay tasks), so the persisted
\* battlesJoined never exceeds 1 and tasksCompleted never exceeds
\* maxTasksPerDay.
C6_RateLimits ==
    /\ mem.daily.battles_joined <= 1
    /\ mem.daily.tasks_completed <= prefs.for_good.max_tasks_per_day
    /\ \A p \in Scheduled :
          /\ inv[p].pc \in {"claim", "complete", "createRepo"} =>
                Counter(inv[p].dailyStats, TypeOf(Current(inv[p])))
                    < Ceiling(TypeOf(Current(inv[p])))
          /\ inv[p].pc = "submit" =>
                Counter(inv[p].dailyStats, TypeOf(Current(inv[p])))
                    <= Ceiling(TypeOf(Current(inv[p])))

\* C6 witness: battlesJoined = 1 and a battle that is within budget and
\* matches the allow-list (no profile) was skipped without a claim attempt.
C6_Witness ==
    \E p \in Scheduled :
        /\ inv[p].pc = "loop"
        /\ inv[p].idx > 1
        /\ inv[p].dailyStats.battles_joined = 1
        /\ mem.daily.battles_joined = 1
        /\ LET id == inv[p].unclaimed[inv[p].idx - 1]
           IN  /\ TypeOf(id) = "battle"
               /\ ~inv[p].ownerKnowledge
               /\ MatchedCategory(id, prefs)
               /\ ~OverBudget(EstimatedTokens(id, inv[p].budget), inv[p].available100)
               /\ id \in hist[p].skipped
               /\ id \notin hist[p].passed

\* C7 (as claimed): when the submission reports failure the persisted daily
\* stats are what they were when the invocation started.
C7_RecordOnlyAfterSubmit ==
    \A p \in Scheduled : hist[p].rejected # {} => mem.daily = hist[p].startDaily

\* C8: when an error is thrown at an item whose claim had succeeded (in its
\* execution or its submission), its identifier is in the persisted claimed
\* list and the persisted daily stats are what they were at the start.
C8_OrphanedClaim ==
    \A p \in Scheduled :
        (hist[p].outcome = "threw" /\ hist[p].failed \cap SeqToSet(hist[p].posted) # {})
            => /\ Numbers(hist[p].failed) \subseteq ClaimedSet
               /\ Numbers(hist[p].failed) \cap SeqToSet(hist[p].startClaimed) = {}
               /\ mem.daily = hist[p].startDaily
               /\ hist[p].recorded = <<>>

\* C8 witness: an orphaned claim in a store that already holds a day's stats.
C8_Witness ==
    \E p \in Scheduled :
        /\ hist[p].outcome = "threw"
        /\ hist[p].failed \cap SeqToSet(hist[p].posted) # {}
        /\ hist[p].startDaily.tokens_used > 0

\* C9 (as claimed): a candidate skipped at a gate or at a failed claim is not
\* in the claimed list, and the next invocation has it among its candidates
\* if the source still lists it.
C9_SkippedStaysEligible ==
    \A p \in Scheduled :
        /\ Running(p) => Numbers(hist[p].skipped) \cap ClaimedSet = {}
        /\ (inv[p].pc = "loop" /\ inv[p].idx = 1) =>
              (hist[p].prevSkipped \cap SeqToSet(inv[p].issues))
                  \subseteq SeqToSet(inv[p].unclaimed)

\* C9 restricted to the issues whose number no issue of the other pool bears.
UniqueNumber(id) ==
    \A other \in IssueIds : Issue(other).number = Issue(id).number => other = id

C9_SkippedStaysEligibleUnique ==
    \A p \in Scheduled :
        /\ Running(p) =>
              Numbers({id \in hist[p].skipped : UniqueNumber(id)}) \cap ClaimedSet = {}
        /\ (inv[p].pc = "loop" /\ inv[p].idx = 1) =>
              ({id \in hist[p].prevSkipped : UniqueNumber(id)} \cap SeqToSet(inv[p].issues))
                  \subseteq SeqToSet(inv[p].unclaimed)

\* C10 (as claimed): no failure of a call leaves run as an error.
C10_NoErrorEscapes ==
    \A p \in Scheduled : hist[p].outcome # "threw"

\* C11: an invocation that finds agent_id or github_token missing returns at
\* once: it is not in flight, it has fetched nothing, evaluated no gate, posted
\* no claim and recorded nothing, and its step leaves the whole store (claimed
\* list, daily stats, owner profile) as it was.
C11_Aborted ==
    \A p \in Scheduled :
        hist[p].outcome = "aborted" =>
            /\ ~Running(p)
            /\ inv[p].issues = <<>> /\ inv[p].unclaimed = <<>>
            /\ hist[p].skipped = {} /\ hist[p].passed = {}
            /\ hist[p].posted = <<>> /\ hist[p].recorded = <<>>
            /\ hist[p].dropped = {} /\ hist[p].failed = {}
            /\ mem.claimed = hist[p].startClaimed
            /\ mem.daily = hist[p].startDaily

C11_AbortStep ==
    \A p \in Scheduled :
        (hist'[p].outcome = "aborted" /\ hist'[p] # hist[p]) => (mem' = mem /\ inv' = inv)

C11_AbortLeavesStore == [](C11_Aborted) /\ [][C11_AbortStep]_vars

\* C11 witness: an aborted invocation over a store that holds claims, a day's
\* stats and an owner profile.
C11_Witness ==
    \E p \in Scheduled :
        /\ hist[p].outcome = "aborted"
        /\ mem.claimed # <<>>
        /\ mem.daily.tokens_used > 0
        /\ mem.owner_knowledge

\* C12: an invocation that finds stored stats of another day starts from
\* zeroed counters under the current day, and its available is computed from
\* them; no gate reads anything else; an item it records is persisted as
\* tokens_used = its estimate and a counter of 1 under the new day.
Zeroed(today) == [tokens_used |-> 0, battles_joined |-> 0, tasks_completed |-> 0,
                  date |-> today]

C12_RolloverStep ==
    \A p \in Scheduled :
        (inv[p].pc = "idle" /\ inv'[p].pc # "idle"
            /\ mem.daily # NoDaily /\ mem.daily.date # now)
        => /\ inv'[p].dailyStats = Zeroed(now)
           /\ inv'[p].available100 = LedgerAvailable100(inv'[p].budget, 0)

Stale(p) == hist[p].startDaily # NoDaily /\ hist[p].startDaily.date # inv[p].dailyStats.date

C12_Rolled ==
    \A p \in Scheduled :
        /\ (Running(p) /\ Stale(p) /\ inv[p].pc # "submit")
              => /\ inv[p].dailyStats = Zeroed(inv[p].dailyStats.date)
                 /\ hist[p].startDaily.date < inv[p].dailyStats.date
                 /\ inv[p].dailyStats.date <= now
        /\ (Len(hist[p].recorded) = 1 /\ hist[p].startDaily # NoDaily
               /\ hist[p].startDaily.date # mem.daily.date)
              => /\ mem.daily.tokens_used = hist[p].spent
                 /\ \E budget \in Budgets :
                       hist[p].spent = EstimatedTokens(hist[p].recorded[1], budget)
                 /\ mem.daily.battles_joined =
                       (IF TypeOf(hist[p].recorded[1]) = "battle" THEN 1 ELSE 0)
                 /\ mem.daily.tasks_completed =
                       (IF TypeOf(hist[p].recorded[1]) = "task" THEN 1 ELSE 0)
                 /\ hist[p].startDaily.date < mem.daily.date
                 /\ mem.daily.date <= now

C12_Rollover == [](C12_Rolled) /\ [][C12_RolloverStep]_vars

\* C12 witness: an item recorded under a new day over stored stats of an
\* earlier day that carried a spend and a counter.
C12_Witness ==
    \E p \in Scheduled :
        /\ Len(hist[p].recorded) = 1
        /\ hist[p].startDaily.tokens_used > 0
        /\ hist[p].startDaily.battles_joined + hist[p].startDaily.tasks_completed > 0
        /\ hist[p].startDaily.date # mem.daily.date
        /\ mem.daily.tokens_used = hist[p].spent

\* C13: the persisted stats change only by a record; within one day the
\* available computed from them (daily_tokens - tokens_used - reserve) is
\* lower after the record by exactly the estimate of the recorded item, on a
\* new day it is the full allowance less that estimate, and the estimate
\* recorded did not exceed what was available before.
C13_SpendStep ==
    \A p \in Scheduled :
        mem'.daily # mem.daily =>
            /\ inv[p].pc = "submit"
            /\ LET budget == inv[p].budget
                   id == Current(inv[p])
                   before == IF mem.daily.date = mem'.daily.date
                             THEN mem.daily.tokens_used ELSE 0
               IN  /\ hist'[p].spent = EstimatedTokens(id, budget)
                   /\ LedgerAvailable100(budget, mem'.daily.tokens_used)
                         = LedgerAvailable100(budget, before) - 100 * hist'[p].spent
                   /\ 100 * hist'[p].spent <= LedgerAvailable100(budget, before)

C13_BudgetMonotone == [][C13_SpendStep]_vars

\* C13 witness: a spend recorded on a day that already carried one.
C13_Witness ==
    \E p \in Scheduled :
        /\ Len(hist[p].recorded) = 1
        /\ hist[p].startDaily.date = mem.daily.date
        /\ hist[p].startDaily.tokens_used > 0
        /\ mem.daily.tokens_used = hist[p].startDaily.tokens_used + hist[p].spent

\* C14: the gates are passed in the order dedup, budget, match, rate limit.
\* A candidate at the match gate has passed dedup and budget; a candidate at
\* the claim or past it has passed all four; claims are posted only for such
\* candidates; a candidate that failed a gate lies behind the loop's position
\* and is not evaluated again; the owner profile is refreshed (the match
\* gate's one write) only for a candidate at the match gate, and the claimed
\* list is written only for a candidate at the claim.
C14_Gates ==
    \A p \in Scheduled :
        Running(p) =>
            LET s == inv[p]
            IN  /\ PastBudget(p) =>
                      /\ Issue(Current(s)).number \notin SeqToSet(hist[p].startClaimed)
                      /\ 100 * EstimatedTokens(Current(s), s.budget) <= s.available100
                /\ s.pc \in {"claim", "complete", "createRepo", "submit"} =>
                      /\ Current(s) \in hist[p].passed
                      /\ s.isMatch
                      /\ ~s.ownerKnowledge => MatchedCategory(Current(s), prefs)
                /\ s.pc \in {"claim", "complete", "createRepo"} =>
                      Counter(s.dailyStats, TypeOf(Current(s))) < Ceiling(TypeOf(Current(s)))
                /\ SeqToSet(hist[p].posted) \subseteq hist[p].passed
                /\ \A k \in 1..Len(s.unclaimed) :
                      /\ s.unclaimed[k] \in hist[p].skipped => k < s.idx
                      /\ s.unclaimed[k] \in hist[p].passed => k <= s.idx
                      /\ \A j \in 1..Len(s.unclaimed) :
                            s.unclaimed[j] = s.unclaimed[k] => j = k

C14_GateStep ==
    \A p \in Scheduled :
        /\ (inv'[p].pc = "knowledge" /\ inv[p].pc # "knowledge") => inv[p].pc = "loop"
        /\ (inv'[p].pc = "classify" /\ inv[p].pc # "classify") => inv[p].pc = "knowledge"
        /\ (inv'[p].pc = "claim" /\ inv[p].pc # "claim")
              => inv[p].pc \in {"knowledge", "classify"}
        /\ (mem'.owner_knowledge # mem.owner_knowledge
               \/ mem'.owner_knowledge_updated # mem.owner_knowledge_updated)
              => inv[p].pc = "knowledge"
        /\ mem'.claimed # mem.claimed
              => (inv[p].pc = "claim" /\ Current(inv[p]) \in hist[p].passed)

C14_GateOrder == [](C14_Gates) /\ [][C14_GateStep]_vars

\* C14 witness: a candidate is at the claim after an earlier candidate of the
\* same invocation, within budget, was turned away at a later gate.
C14_Witness ==
    \E p \in Scheduled :
        /\ inv[p].pc = "claim"
        /\ inv[p].idx > 1
        /\ hist[p].skipped \ hist[p].passed # {}

\* C15: while an item is being executed (repository creation, completion,
\* submission) its number is in the persisted claimed list and its claim was
\* posted with success; the list is written only by the step in which
\* claimIssue succeeds, which appends the number and starts the execution.
C15_Executing ==
    \A p \in Scheduled :
        inv[p].pc \in {"createRepo", "complete", "submit"} =>
            /\ Issue(Current(inv[p])).number \in ClaimedSet
            /\ Current(inv[p]) \in SeqToSet(hist[p].posted)

C15_CommitStep ==
    \A p \in Scheduled :
        /\ mem'.claimed # mem.claimed =>
              /\ inv[p].pc = "claim"
              /\ hist'[p].posted = Append(hist[p].posted, Current(inv[p]))
              /\ mem'.claimed = Append(mem.claimed, Issue(Current(inv[p])).number)
              /\ inv'[p].pc \in {"createRepo", "complete"}
        /\ (inv[p].pc = "claim" /\ inv'[p].pc \in {"createRepo", "complete"}) =>
              /\ Issue(Current(inv[p])).number \in SeqToSet(mem'.claimed)
              /\ Len(mem'.claimed) = Len(mem.claimed) + 1

C15_EagerCommit == [](C15_Executing) /\ [][C15_CommitStep]_vars

\* C15 witness: the execution of a task begins (its repository is being
\* created) with its number committed by this invocation.
C15_Witness ==
    \E p \in Scheduled :
        /\ inv[p].pc = "createRepo"
        /\ Issue(Current(inv[p])).number \in ClaimedSet
        /\ Issue(Current(inv[p])).number \notin SeqToSet(hist[p].startClaimed)

\* C16: the match decision.  The owner profile is available after
\* getOwnerKnowledge when the store then holds one (fresh, just refreshed, or
\* stale after a failed refresh).  With a profile the classifier is asked,
\* whatever the labels, and the candidate is accepted exactly when the
\* classifier accepts; without one the candidate is accepted exactly when one
\* of its labels is in the allow-list of its kind.  A rejected candidate is
\* skipped and never claimed; an accepted one goes to the claim unless the
\* rate limit turns it away.
AllowListed(id) ==
    SeqToSet(Issue(id).labels)
        \cap (IF TypeOf(id) = "battle" THEN prefs.arena.categories
              ELSE prefs.for_good.categories) # {}

Rejected(p, id) ==
    /\ inv'[p].pc = "loop" /\ inv'[p].idx = inv[p].idx + 1
    /\ id \in hist'[p].skipped /\ id \notin hist'[p].passed
    /\ mem'.claimed = mem.claimed

Accepted(p, id) ==
    \/ inv'[p].pc = "claim" /\ id \in hist'[p].passed
    \/ /\ Counter(inv[p].dailyStats, TypeOf(id)) >= Ceiling(TypeOf(id))
       /\ inv'[p].pc = "loop" /\ id \in hist'[p].skipped

C16_MatchStep ==
    \A p \in Scheduled :
        /\ (inv[p].pc = "knowledge" /\ inv'[p] # inv[p]) =>
              LET id == Current(inv[p])
              IN  IF mem'.owner_knowledge
                  THEN inv'[p].pc = "classify" /\ inv'[p].ownerKnowledge
                  ELSE /\ ~inv'[p].ownerKnowledge
                       /\ inv'[p].isMatch = AllowListed(id)
                       /\ IF AllowListed(id) THEN Accepted(p, id) ELSE Rejected(p, id)
        /\ (inv[p].pc = "classify" /\ inv'[p] # inv[p] /\ hist'[p].outcome # "threw") =>
              LET id == Current(inv[p])
              IN  IF inv'[p].isMatch THEN Accepted(p, id) ELSE Rejected(p, id)

C16_Matched ==
    \A p \in Scheduled :
        /\ inv[p].pc = "classify" => (inv[p].ownerKnowledge /\ mem.owner_knowledge)
        /\ inv[p].pc \in {"claim", "createRepo", "complete", "submit"} =>
              /\ inv[p].isMatch
              /\ ~inv[p].ownerKnowledge => AllowListed(Current(inv[p]))

OutputBudget(id, budget) ==
    IF TypeOf(id) = "battle" THEN budget.max_per_battle ELSE budget.max_per_task

\* C17 (as claimed): the estimate of a candidate is ceil(promptLength / 4)
\* plus the output budget of its kind, promptLength being the length of the
\* explicit prompt if the block has one and the length of the raw body, config
\* blocks included, otherwise.
C17_EstimateRawBody ==
    \A p \in Scheduled :
        PastBudget(p) =>
            LET body == Issue(Current(inv[p])).body
                promptLength == IF body.prompt # 0 THEN body.prompt
                                ELSE body.text + body.block
            IN  inv[p].estimatedTokens
                  = (promptLength + 3) \div 4 + OutputBudget(Current(inv[p]), inv[p].budget)

\* C17 (amended): promptLength is the length of the explicit prompt if the
\* block has one; otherwise the length of the body with its config blocks
\* stripped and trimmed; and the length of the raw body only when that text is
\* empty.  The estimate depends on the item and the budget alone.
C17_EstimateEffectivePrompt ==
    \A p \in Scheduled :
        PastBudget(p) =>
            LET body == Issue(Current(inv[p])).body
                promptLength == IF body.prompt # 0 THEN body.prompt
                                ELSE IF body.text # 0 THEN body.text
                                ELSE body.text + body.block
            IN  inv[p].estimatedTokens
                  = (promptLength + 3) \div 4 + OutputBudget(Current(inv[p]), inv[p].budget)

\* C17 witness: a candidate past its estimate whose body has a config block
\* without a prompt next to plain text.
C17_Witness ==
    \E p \in Scheduled :
        /\ PastBudget(p)
        /\ Issue(Current(inv[p])).body.prompt = 0
        /\ Issue(Current(inv[p])).body.block # 0
        /\ Issue(Current(inv[p])).body.text # 0

\* How many times a number is in a list.
Occurrences(list, n) == Cardinality({k \in 1..Len(list) : list[k] = n})

\* C18: overlapping invocations.  The candidates of an invocation are fixed by
\* the claimed list as it read it at its filter, whatever is committed
\* meanwhile; when both invocations have posted a claim for the same item,
\* both had passed dedup on it before either committed, and both commits are
\* in the list; a successful claim post is followed by the commit even when
\* the number is in the list already.  Nothing prevents the double claim.
C18_Overlap ==
    /\ \A p \in Procs :
          inv[p].pc \notin {"idle", "fetchArena", "fetchTasks"} =>
              /\ SeqToSet(inv[p].unclaimed)
                    = {id \in SeqToSet(inv[p].issues) :
                          Issue(id).number \notin SeqToSet(hist[p].startClaimed)}
              /\ SeqToSet(hist[p].posted) \subseteq SeqToSet(inv[p].unclaimed)
    /\ \A id \in SeqToSet(hist["scheduled"].posted) \cap SeqToSet(hist["webhook"].posted) :
          /\ Issue(id).number \notin SeqToSet(hist["scheduled"].startClaimed)
          /\ Issue(id).number \notin SeqToSet(hist["webhook"].startClaimed)
          /\ Occurrences(mem.claimed, Issue(id).number) >= 2

C18_PostStep ==
    \A p \in Procs :
        (inv[p].pc = "claim" /\ hist'[p].posted # hist[p].posted) =>
            /\ hist'[p].posted = Append(hist[p].posted, Current(inv[p]))
            /\ mem'.claimed = Append(mem.claimed, Issue(Current(inv[p])).number)

C18_DoubleClaim == [](C18_Overlap) /\ [][C18_PostStep]_vars

\* C18 witness: both invocations have posted a claim for the same item and
\* committed it.
C18_Witness ==
    \E id \in IssueIds :
        /\ id \in SeqToSet(hist["scheduled"].posted)
        /\ id \in SeqToSet(hist["webhook"].posted)
        /\ Occurrences(mem.claimed, Issue(id).number) >= 2

\* C19 (as claimed): an issue the filter removes from the candidates is an
\* item (pool and number) that an earlier claim committed.
C19_DedupSameItem ==
    \A p \in Scheduled :
        inv[p].pc \notin {"idle", "fetchArena", "fetchTasks"} =>
            (SeqToSet(inv[p].issues) \ SeqToSet(inv[p].unclaimed))
                \subseteq hist[p].committed

\* C20 (as claimed): with the two triggers each running once over an empty
\* store on one day, overlapping or not, the persisted stats carry every
\* record: tokens_used is the sum of the recorded estimates and the counters
\* count the recorded battles and tasks.
RecordedOf(type) ==
    {p \in Procs : hist[p].recorded # <<>> /\ TypeOf(hist[p].recorded[1]) = type}

C20_NoLostUpdate ==
    /\ mem.daily.tokens_used = hist["scheduled"].spent + hist["webhook"].spent
    /\ mem.daily.battles_joined = Cardinality(RecordedOf("battle"))
    /\ mem.daily.tasks_completed = Cardinality(RecordedOf("task"))

\* C21: under one fixed budget, with invocations that follow one another from
\* an empty store, the persisted tokens_used never exceeds daily_tokens less
\* the reserve (daily_tokens * reserve_percent / 100), and neither does the
\* tokens_used an invocation in flight holds.
C21_SpendCeiling ==
    /\ 100 * mem.daily.tokens_used
          <= 100 * FixedBudget.daily_tokens
               - FixedBudget.daily_tokens * FixedBudget.reserve_percent
    /\ \A p \in Scheduled :
          Running(p) =>
              100 * inv[p].dailyStats.tokens_used
                  <= 100 * FixedBudget.daily_tokens
                       - FixedBudget.daily_tokens * FixedBudget.reserve_percent

\* C21 witness: after a day rollover and a recorded spend, an invocation of the
\* same day has turned a candidate away whose estimate would have taken
\* tokens_used past the ceiling.
C21_Witness ==
    \E p \in Scheduled :
        /\ Running(p)
        /\ mem.daily.date > 1
        /\ mem.daily.date = inv[p].dailyStats.date
        /\ mem.daily.tokens_used > 0
        /\ \E id \in hist[p].skipped :
              100 * (mem.daily.tokens_used + EstimatedTokens(id, FixedBudget))
                  > 100 * FixedBudget.daily_tokens
                      - FixedBudget.daily_tokens * FixedBudget.reserve_percent

====
